---------------------------- MODULE Spec2Model ----------------------------
(***************************************************************************)
(* A model of dvr-recover.py (version 0.5): the resumable scan that        *)
(* partitions a block stream into chunks (Main.create / ChunkFactory),     *)
(* the chunk linker (Main.sort), the exporter (Main.export), the virtual   *)
(* multi-file stream (FileReader), the pack-header parser                  *)
(* (ChunkFactory.mpeg_header) and the commands clear and reset.            *)
(*                                                                         *)
(* The source calls SqlManager through names that differ from the names    *)
(* SqlManager defines (update_state / state_update, query_state /          *)
(* state_query, reset_states / state_reset, init_states / state_init,      *)
(* insert_chunk / chunk_save, count_chunks / chunk_count,                  *)
(* query_chunk_by_id / chunk_load, query_chunk_ids / chunk_query_ids).     *)
(* Each call is modelled by the SqlManager method of the matching words;   *)
(* the chunk table carries the position column Main.sort writes, and       *)
(* chunk_query_ids returns the list Main.sort iterates and removes from.   *)
(* Main.export likewise reads the chunk list as self.chunks and its length *)
(* as self.db_manager, from before the chunks moved into the database;     *)
(* they are modelled as the rows of the chunk table in position order and  *)
(* as chunk_count.  Every other statement is modelled as Python executes   *)
(* it.                                                                     *)
(*                                                                         *)
(* Python's None is modelled by the integer -1 (clocks and block indices   *)
(* are never negative); an arithmetic operation on None raises TypeError,  *)
(* which is modelled explicitly wherever the code can reach it.  An        *)
(* optional object (ChunkFactory.chunk, the rows of the state table) is a  *)
(* sequence of length 0 (None / no rows) or 1.                             *)
(***************************************************************************)
EXTENDS Integers, Sequences, FiniteSets, TLC

\* ------------------------------------------------------------------ bounds
\* longest block stream explored (number of full blocks)
MaxBlocks == 5
\* largest stream-clock value carried by a block header
MaxClock == 2
\* Main.blocksize, scaled down (bytes per block)
BlockSize == 2
\* Main.min_chunk_size, scaled down (blocks)
MinChunkSize == 1
\* Main.max_create_gap, scaled down (clock ticks)
MaxCreateGap == 1
\* Main.max_sort_gap, scaled down (clock ticks)
MaxSortGap == 1
\* largest chunk table the linker is run on
MaxChunks == 3
\* completed runs of Main.sort explored on one database
MaxSortRuns == 2
\* most input files handed to one FileReader
MaxParts == 3
\* largest input file (bytes)
MaxPartSize == 2
\* largest size argument of FileReader.read explored (bytes)
MaxRead == 3
\* longest block stream explored over the two clocks 0 and MaxClock
MaxLongBlocks == 6
\* the clock values explored differ from all-zeros or all-ones in at most
\* this many of their bits
MaxFlipped == 1

\* ------------------------------------------------------------ basic values
None == -1

Clocks == 0..MaxClock

\* --------------------------------------------------------------- the state
VARIABLES
    stream,     \* stream[i+1] = ChunkFactory.mpeg_header of block i (None or a clock)
    size,       \* FileReader.get_size(): bytes of the virtual stream
    pc,         \* "idle", "scanning", "finished", "aborted": where Main.create stands
    error,      \* the exception that ended the stage ("" when none)
    cf,         \* the ChunkFactory instance
    xrange_pos, \* the next value the xrange of ChunkFactory.run yields
    db,         \* the sqlite connection's view: committed state plus the open transaction
    durable,    \* the committed content of the database file
    resumed,    \* history: the running scan started from a stored checkpoint
    finished_scan, \* history: the last scan that was admitted ran to finished()
    sort_pc,        \* "idle", "sorting", "done", "aborted": where Main.sort stands
    old_chunk_ids,  \* Main.sort: the list of chunk ids, ordered by clock_start
    new_chunk_ids,  \* Main.sort: the list of (chunk id, concat) pairs
    sort_iter,      \* Main.sort: the index the iterator of the outer loop stands at
    row_order,      \* the order in which the database returns rows of equal sort key
    sort_runs,      \* history: the runs of Main.sort completed on this database
    export_pc,      \* "idle", "done", "aborted": where Main.export stands
    export_arg,     \* sys.argv[2] of the last export as an integer (None: export all)
    outfiles,       \* the files the last export opened for writing, in order
    parts,          \* FileReader.parts: the sizes of the input files
    current_file,   \* FileReader.current_file (None when no file is open)
    file_tell,      \* FileReader.file.tell(): the offset in the open file
    buf,            \* the bytes the last FileReader.read returned
    last_op,        \* the last call on the FileReader and its argument
    hdr_v,          \* the clock a pack header was built from, as 33 bits
    hdr_buf,        \* the 9 leading bytes handed to mpeg_header
    hdr_clock,      \* what mpeg_header returned for hdr_buf
    admin_cmd       \* the last of the commands clear and reset that ran ("none" before)

scanVars == <<stream, size, pc, cf, xrange_pos, resumed, finished_scan>>

sortVars == <<sort_pc, old_chunk_ids, new_chunk_ids, sort_iter, row_order, sort_runs>>

exportVars == <<export_pc, export_arg, outfiles>>

readerVars == <<parts, current_file, file_tell, buf, last_op>>

headerVars == <<hdr_v, hdr_buf, hdr_clock>>

adminVars == <<admin_cmd>>

vars == <<stream, size, pc, error, cf, xrange_pos, db, durable, resumed,
         finished_scan,
          sort_pc, old_chunk_ids, new_chunk_ids, sort_iter, row_order, sort_runs,
          export_pc, export_arg, outfiles,
          parts, current_file, file_tell, buf, last_op,
          hdr_v, hdr_buf, hdr_clock, admin_cmd>>

\* what the actions of one component leave unchanged
notScan == <<sortVars, exportVars, readerVars, headerVars, adminVars>>

notSort == <<scanVars, exportVars, readerVars, headerVars, adminVars>>

notExport == <<scanVars, sortVars, readerVars, headerVars, adminVars, db, durable>>

notReader == <<scanVars, sortVars, exportVars, headerVars, adminVars, db, durable>>

notHeader == <<scanVars, sortVars, exportVars, readerVars, adminVars, db, durable, error>>

notAdmin == <<scanVars, sortVars, exportVars, readerVars, headerVars>>

\* Chunk.__init__: every slot None
NewChunk ==
    [block_start |-> None, block_size |-> None,
     clock_start |-> None, clock_end |-> None, concat |-> None]

\* ChunkFactory.__init__
NewChunkFactory ==
    [current_block |-> 0, clock |-> 0, old_clock |-> 0, chunk |-> <<>>]

\* ChunkFactory.__init__: input_blocks = int(get_size() / blocksize)
input_blocks == size \div BlockSize

\* SqlManager.init_db on a new file: both tables empty
EmptyStore == [chunk |-> <<>>, state |-> <<>>]

\* ------------------------------------------------------------- SqlManager
\* mutant of state_reset: the state rows are kept
state_reset_keep(d) == d

\* SqlManager.state_reset
state_reset(d) == [d EXCEPT !.state = <<>>]

\* SqlManager.state_init: reset, then one row per key with a null value
state_init(d) ==
    [d EXCEPT !.state = <<[current_block |-> None, block_start |-> None,
                           clock_start |-> None, old_clock |-> None]>>]

\* SqlManager.state_query: None when the row is missing or its value is null
state_query(d, key) ==
    IF d.state = <<>> THEN None ELSE d.state[1][key]

\* SqlManager.state_update: UPDATE changes the row only if it exists
state_update(d, key, value) ==
    IF d.state = <<>> THEN d
    ELSE [d EXCEPT !.state = <<[d.state[1] EXCEPT ![key] = value]>>]

\* mutant of chunk_count: counts the rows of the state table
chunk_count_of_state(d) == Len(d.state)

\* SqlManager.chunk_count
chunk_count(d) == Len(d.chunk)

\* mutant of chunk_save: the two clocks are bound to each other's column
chunk_save_swapped(d, c) ==
    [d EXCEPT !.chunk = Append(d.chunk,
        [id |-> Len(d.chunk) + 1,
         block_start |-> c.block_start, block_size |-> c.block_size,
         clock_start |-> c.clock_end, clock_end |-> c.clock_start,
         concat |-> c.concat, position |-> None])]

\* SqlManager.chunk_save, chunk.new: INSERT with a fresh rowid as id
chunk_save(d, c) ==
    [d EXCEPT !.chunk = Append(d.chunk,
        [id |-> Len(d.chunk) + 1,
         block_start |-> c.block_start, block_size |-> c.block_size,
         clock_start |-> c.clock_start, clock_end |-> c.clock_end,
         concat |-> c.concat, position |-> None])]

\* ----------------------------------------------------------- ChunkFactory
\* mutant of save_state: the checkpoint names the block behind the current one
save_state_block_after(f, d) ==
    LET block_start == IF f.chunk = <<>> THEN None ELSE f.chunk[1].block_start
        clock_start == IF f.chunk = <<>> THEN None ELSE f.chunk[1].clock_start
        d1 == state_update(d, "current_block", f.current_block + 1)
        d2 == state_update(d1, "block_start", block_start)
        d3 == state_update(d2, "clock_start", clock_start)
    IN  state_update(d3, "old_clock", f.old_clock)

\* ChunkFactory.save_state, up to its commit: the four state_update calls
save_state(f, d) ==
    LET block_start == IF f.chunk = <<>> THEN None ELSE f.chunk[1].block_start
        clock_start == IF f.chunk = <<>> THEN None ELSE f.chunk[1].clock_start
        d1 == state_update(d, "current_block", f.current_block)
        d2 == state_update(d1, "block_start", block_start)
        d3 == state_update(d2, "clock_start", clock_start)
    IN  state_update(d3, "old_clock", f.old_clock)

\* mutant of load_state: a stored checkpoint restarts the scan at block 0
load_state_from_zero(f, d) ==
    LET current_block == state_query(d, "current_block")
        block_start == state_query(d, "block_start")
        clock_start == state_query(d, "clock_start")
        old_clock == state_query(d, "old_clock")
    IN  [f EXCEPT !.current_block = IF current_block = None THEN None ELSE 0,
                  !.chunk = IF block_start # None /\ clock_start # None
                            THEN <<NewChunk>> ELSE f.chunk,
                  !.old_clock = old_clock]

\* ChunkFactory.load_state: the re-opened chunk is a fresh Chunk(); the stored
\* block_start and clock_start are assigned to attributes of the factory, not
\* of the chunk, so the chunk's own slots stay None
load_state(f, d) ==
    LET current_block == state_query(d, "current_block")
        block_start == state_query(d, "block_start")
        clock_start == state_query(d, "clock_start")
        old_clock == state_query(d, "old_clock")
    IN  [f EXCEPT !.current_block = current_block,
                  !.chunk = IF block_start # None /\ clock_start # None
                            THEN <<NewChunk>> ELSE f.chunk,
                  !.old_clock = old_clock]

\* ChunkFactory.split raises TypeError: current_block - 1 - None
split_raises(f) ==
    /\ f.chunk # <<>>
    /\ f.chunk[1].block_start = None

\* mutant of split_chunk: the size counts up to the block being examined
split_chunk_inclusive(f) ==
    [f.chunk[1] EXCEPT !.block_size = f.current_block + 1 - f.chunk[1].block_start,
                       !.clock_end = f.old_clock]

\* ChunkFactory.split, the chunk it closes (when there is one and no TypeError)
split_chunk(f) ==
    [f.chunk[1] EXCEPT !.block_size = f.current_block - 1 - f.chunk[1].block_start,
                       !.clock_end = f.old_clock]

\* mutant of split_db: the closed chunk is stored whatever its size
split_db_any_size(f, d) ==
    IF f.chunk = <<>> THEN d ELSE chunk_save(d, split_chunk(f))

\* ChunkFactory.split, effect on the database
split_db(f, d) ==
    IF f.chunk = <<>> THEN d
    ELSE IF split_chunk(f).block_size >= MinChunkSize
         THEN chunk_save(d, split_chunk(f))
         ELSE d

\* ChunkFactory.split, effect on the factory
split_cf(f) == [f EXCEPT !.chunk = <<>>]

\* ChunkFactory.run, the loop body after check_timer: does it end in TypeError
body_raises(f) ==
    LET c == stream[f.current_block + 1]
    IN  IF c = None THEN split_raises(f)
        ELSE /\ f.chunk # <<>>
             /\ \/ f.old_clock = None
                \/ /\ (c - f.old_clock < 0) \/ (c - f.old_clock > MaxCreateGap)
                   /\ split_raises(f)

\* ChunkFactory.run, the loop body after check_timer: the database
body_db(f, d) ==
    LET c == stream[f.current_block + 1]
    IN  IF c = None THEN split_db(f, d)
        ELSE IF f.chunk = <<>> THEN d
        ELSE IF (c - f.old_clock < 0) \/ (c - f.old_clock > MaxCreateGap)
             THEN split_db(f, d)
             ELSE d

\* ChunkFactory.run, the loop body after check_timer: the factory
body_cf(f) ==
    LET c == stream[f.current_block + 1]
        f1 == [f EXCEPT !.clock = c]
    IN  IF c = None THEN split_cf(f1)
        ELSE IF f.chunk = <<>>
             THEN [f1 EXCEPT !.chunk = <<[NewChunk EXCEPT
                                            !.block_start = f.current_block,
                                            !.clock_start = c]>>,
                             !.old_clock = c]
        ELSE IF (c - f.old_clock < 0) \/ (c - f.old_clock > MaxCreateGap)
             THEN [split_cf(f1) EXCEPT !.old_clock = c]
             ELSE [f1 EXCEPT !.old_clock = c]

\* FileReader.seek: get_index finds no file for an offset at or past the end,
\* and open(None) raises FileReaderError
seek_raises(offset) == offset >= size

\* ------------------------------------------------ components at rest
\* no sort was started
SortIdle ==
    /\ sort_pc = "idle"
    /\ old_chunk_ids = <<>>
    /\ new_chunk_ids = <<>>
    /\ sort_iter = 0
    /\ sort_runs = 0

\* no export was started
ExportIdle ==
    /\ export_pc = "idle"
    /\ export_arg = None
    /\ outfiles = <<>>

\* FileReader.__init__ on no file: no file open
ReaderIdle ==
    /\ parts = <<>>
    /\ current_file = None
    /\ file_tell = 0
    /\ buf = <<>>
    /\ last_op = [op |-> "none", arg |-> 0]

\* no header was parsed
HeaderIdle ==
    /\ hdr_v = <<>>
    /\ hdr_buf = <<>>
    /\ hdr_clock = <<>>

\* neither clear nor reset was run
AdminIdle == admin_cmd = "none"

\* Main.create was never run
ScanIdle ==
    /\ pc = "idle"
    /\ cf = NewChunkFactory
    /\ xrange_pos = 0
    /\ resumed = FALSE
    /\ finished_scan = FALSE

\* ---------------------------------------------------------------- actions
Init ==
    /\ stream \in UNION {[1..n -> Clocks \cup {None}] : n \in 0..MaxBlocks}
    /\ size \in {Len(stream) * BlockSize + t : t \in 0..(BlockSize - 1)}
    /\ pc = "idle"
    /\ error = ""
    /\ cf = NewChunkFactory
    /\ xrange_pos = 0
    /\ db = EmptyStore
    /\ durable = EmptyStore
    /\ resumed = FALSE
    /\ finished_scan = FALSE
    /\ SortIdle
    /\ row_order = <<>>
    /\ ExportIdle
    /\ ReaderIdle
    /\ HeaderIdle
    /\ AdminIdle

\* an uncaught exception leaves Main.run before db_manager.close(): the open
\* transaction is never committed
Raise(name) ==
    /\ pc' = "aborted"
    /\ error' = name
    /\ db' = durable'

\* Main.create up to the loop of ChunkFactory.run: a new process, a new
\* ChunkFactory, load_state, the refusal, reset and init of the state rows,
\* and the seek
StartScan ==
    /\ pc \in {"idle", "finished", "aborted"}
    /\ LET f0 == load_state(NewChunkFactory, db)
           f1 == IF f0.current_block = None
                 THEN [f0 EXCEPT !.current_block = 0] ELSE f0
       IN  /\ cf' = f1
           /\ resumed' = (f0.current_block # None)
           /\ UNCHANGED <<stream, size, durable>>
           /\ UNCHANGED notScan
           /\ IF f0.current_block = None /\ chunk_count(db) # 0
              THEN /\ Raise("CreateError")
                   /\ UNCHANGED <<xrange_pos, finished_scan>>
              ELSE IF seek_raises(f1.current_block * BlockSize)
              THEN /\ Raise("FileReaderError")
                   /\ UNCHANGED <<xrange_pos, finished_scan>>
              ELSE /\ pc' = "scanning"
                   /\ finished_scan' = FALSE
                   /\ error' = ""
                   /\ db' = state_init(state_reset(db))
                   /\ xrange_pos' = f1.current_block

\* mutant of ScanBlock: every iteration commits what it wrote, also when the
\* timer has not elapsed and no checkpoint was saved
ScanBlock_commit_each ==
    /\ pc = "scanning"
    /\ xrange_pos < input_blocks
    /\ \E elapsed \in BOOLEAN :
        LET f1 == [cf EXCEPT !.current_block = xrange_pos]
            d1 == IF elapsed THEN save_state(f1, db) ELSE db
        IN  /\ cf' = body_cf(f1)
            /\ xrange_pos' = xrange_pos + 1
            /\ UNCHANGED <<stream, size, resumed, finished_scan>>
            /\ UNCHANGED notScan
            /\ IF body_raises(f1)
               THEN /\ durable' = IF elapsed THEN d1 ELSE durable
                    /\ Raise("TypeError")
               ELSE /\ db' = body_db(f1, d1)
                    /\ durable' = db'
                    /\ UNCHANGED <<pc, error>>

\* one iteration of the loop of ChunkFactory.run: check_timer (which saves the
\* state and commits when more than 30 seconds have passed), read, parse,
\* split or open
ScanBlock ==
    /\ pc = "scanning"
    /\ xrange_pos < input_blocks
    /\ \E elapsed \in BOOLEAN :
        LET f1 == [cf EXCEPT !.current_block = xrange_pos]
            d1 == IF elapsed THEN save_state(f1, db) ELSE db
        IN  /\ durable' = IF elapsed THEN d1 ELSE durable
            /\ cf' = body_cf(f1)
            /\ xrange_pos' = xrange_pos + 1
            /\ UNCHANGED <<stream, size, resumed, finished_scan>>
            /\ UNCHANGED notScan
            /\ IF body_raises(f1)
               THEN Raise("TypeError")
               ELSE /\ db' = body_db(f1, d1)
                    /\ UNCHANGED <<pc, error>>

\* mutant of EndScan: the loop is not followed by the last split
EndScan_no_split ==
    /\ pc = "scanning"
    /\ xrange_pos >= input_blocks
    /\ cf' = split_cf(cf)
    /\ UNCHANGED <<stream, size, resumed, xrange_pos>>
    /\ UNCHANGED notScan
    /\ db' = state_reset(db)
    /\ durable' = db'
    /\ pc' = "finished"
    /\ error' = ""
    /\ finished_scan' = TRUE

\* the end of ChunkFactory.run: the last split, then finished (reset of the
\* state rows and commit)
EndScan ==
    /\ pc = "scanning"
    /\ xrange_pos >= input_blocks
    /\ cf' = split_cf(cf)
    /\ UNCHANGED <<stream, size, resumed, xrange_pos>>
    /\ UNCHANGED notScan
    /\ IF split_raises(cf)
       THEN /\ UNCHANGED <<durable, finished_scan>>
            /\ Raise("TypeError")
       ELSE /\ db' = state_reset(split_db(cf, db))
            /\ durable' = db'
            /\ pc' = "finished"
            /\ error' = ""
            /\ finished_scan' = TRUE

\* the process is killed during the scan: the open transaction is lost
Interrupt ==
    /\ pc = "scanning"
    /\ pc' = "idle"
    /\ db' = durable
    /\ UNCHANGED <<stream, size, error, cf, xrange_pos, durable, resumed,
                   finished_scan>>
    /\ UNCHANGED notScan

Next ==
    \/ StartScan
    \/ ScanBlock
    \/ EndScan
    \/ Interrupt

\* longer streams of whole blocks, each block invalid or with one of the two
\* clocks 0 and MaxClock: long enough for a scan to store two chunks
InitLong ==
    /\ stream \in UNION {[1..n -> {None, 0, MaxClock}] : n \in 0..MaxLongBlocks}
    /\ size = Len(stream) * BlockSize
    /\ error = ""
    /\ db = EmptyStore
    /\ durable = EmptyStore
    /\ row_order = <<>>
    /\ ScanIdle
    /\ SortIdle
    /\ ExportIdle
    /\ ReaderIdle
    /\ HeaderIdle
    /\ AdminIdle

SpecLong == InitLong /\ [][Next]_vars

Spec == Init /\ [][Next]_vars


\* ---------------------------------------------------------------- Main.sort
\* SqlManager.chunk_load: the row of a chunk id
chunk_load(d, chunk_id) ==
    d.chunk[CHOOSE k \in 1..Len(d.chunk) : d.chunk[k].id = chunk_id]

\* SqlManager.chunk_query_ids, ordered by clock_start: the lists the query can
\* return (rows of equal clock_start come in any order)
chunk_query_ids(d) ==
    {ids \in [1..Len(d.chunk) -> {d.chunk[k].id : k \in 1..Len(d.chunk)}] :
        /\ \A i, j \in 1..Len(d.chunk) : i # j => ids[i] # ids[j]
        /\ \A i \in 1..(Len(d.chunk) - 1) :
              chunk_load(d, ids[i]).clock_start <= chunk_load(d, ids[i + 1]).clock_start}

\* the list chunk_query_ids returns on a database whose rows of equal
\* clock_start come in the order row_order
chunk_query_ids_of(d, order) ==
    {ids \in chunk_query_ids(d) :
        \A i \in 1..(Len(ids) - 1) :
            chunk_load(d, ids[i]).clock_start = chunk_load(d, ids[i + 1]).clock_start
            => (CHOOSE a \in 1..Len(order) : order[a] = ids[i])
                 < (CHOOSE b \in 1..Len(order) : order[b] = ids[i + 1])}

\* find_next_part, "chunk_id2 in new_chunk_ids": new_chunk_ids holds
\* (id, concat) tuples, and an id never equals a tuple
in_new_chunk_ids(chunk_id2, new) == FALSE

\* list.remove: drop the first occurrence of x
list_remove(list, x) ==
    LET k == CHOOSE i \in 1..Len(list) :
                 list[i] = x /\ \A j \in 1..(i - 1) : list[j] # x
    IN  SubSeq(list, 1, k - 1) \o SubSeq(list, k + 1, Len(list))

\* mutant of candidates: a chunk the database already marks as concatenated
\* is skipped
candidates_skip_marked(d, old, new, chunk_id) ==
    LET chunk == chunk_load(d, chunk_id)
        passes(chunk_id2) ==
            /\ chunk_id2 # chunk_id
            /\ chunk_load(d, chunk_id2).concat # 1
            /\ chunk_load(d, chunk_id2).clock_start - chunk.clock_end >= 0
            /\ chunk_load(d, chunk_id2).clock_start - chunk.clock_end <= MaxSortGap
    IN  SelectSeq(old, passes)

\* find_next_part, the loop over old_chunk_ids: the ids that pass both
\* "continue" tests, in list order
candidates(d, old, new, chunk_id) ==
    LET chunk == chunk_load(d, chunk_id)
        passes(chunk_id2) ==
            /\ chunk_id2 # chunk_id
            /\ ~in_new_chunk_ids(chunk_id2, new)
            /\ chunk_load(d, chunk_id2).clock_start - chunk.clock_end >= 0
            /\ chunk_load(d, chunk_id2).clock_start - chunk.clock_end <= MaxSortGap
    IN  SelectSeq(old, passes)

\* mutant of find_next_part: the chunk found is appended, and the search is
\* not repeated from it
find_next_part_once(d, old, new, chunk_id) ==
    LET c == candidates(d, old, new, chunk_id)
    IN  IF Len(c) = 0 THEN [old |-> old, new |-> new, raised |-> FALSE]
        ELSE IF Len(c) >= 2 THEN [old |-> old, new |-> new, raised |-> TRUE]
        ELSE [old |-> list_remove(old, c[1]),
              new |-> Append(new, <<c[1], TRUE>>), raised |-> FALSE]

\* Main.sort.find_next_part, with its recursion.  The first candidate becomes
\* next_part, a chunk id; a second candidate evaluates next_part.clock_start
\* on that id, which raises AttributeError.
RECURSIVE find_next_part(_, _, _, _)
find_next_part(d, old, new, chunk_id) ==
    LET c == candidates(d, old, new, chunk_id)
    IN  IF Len(c) = 0 THEN [old |-> old, new |-> new, raised |-> FALSE]
        ELSE IF Len(c) >= 2 THEN [old |-> old, new |-> new, raised |-> TRUE]
        ELSE find_next_part(d, list_remove(old, c[1]),
                            Append(new, <<c[1], TRUE>>), c[1])

\* Main.sort, the last loop: position and concat of every entry of
\* new_chunk_ids, written in list order (a later entry of the same id
\* overwrites an earlier one); concat is stored as an integer
RECURSIVE update_positions(_, _, _)
update_positions(d, new, index) ==
    IF index >= Len(new) THEN d
    ELSE LET chunk_info == new[index + 1]
             k == CHOOSE i \in 1..Len(d.chunk) : d.chunk[i].id = chunk_info[1]
         IN  update_positions(
                 [d EXCEPT !.chunk[k].position = index,
                           !.chunk[k].concat = IF chunk_info[2] THEN 1 ELSE 0],
                 new, index + 1)

\* the (clock_start, clock_end) pairs a stored chunk can carry
ClockPairs == {p \in Clocks \X Clocks : p[1] <= p[2]}

\* a chunk table as a finished scan leaves it: rows in ascending block_start,
\* block ranges disjoint, block_size at the minimum, no position, no concat
StoredChunks(pairs) ==
    [k \in 1..Len(pairs) |->
        [id |-> k,
         block_start |-> (k - 1) * (MinChunkSize + 2),
         block_size |-> MinChunkSize,
         clock_start |-> pairs[k][1], clock_end |-> pairs[k][2],
         concat |-> None, position |-> None]]

\* the block stream a chunk table of StoredChunks was scanned from: per
\* chunk a run of MinChunkSize + 1 valid blocks (the first with clock_start,
\* the others with clock_end) and one invalid block
StoredStream(pairs) ==
    [i \in 1..(Len(pairs) * (MinChunkSize + 2)) |->
        LET k == ((i - 1) \div (MinChunkSize + 2)) + 1
            off == (i - 1) % (MinChunkSize + 2)
        IN  IF off = 0 THEN pairs[k][1]
            ELSE IF off <= MinChunkSize THEN pairs[k][2]
            ELSE None]

\* the orders of n rows
RowOrders(n) ==
    {o \in [1..n -> 1..n] : \A i, j \in 1..n : i # j => o[i] # o[j]}

InitSort ==
    /\ \E n \in 0..MaxChunks : \E pairs \in [1..n -> ClockPairs] :
          /\ db = [chunk |-> StoredChunks(pairs), state |-> <<>>]
          /\ stream = StoredStream(pairs)
          /\ row_order \in RowOrders(n)
    /\ durable = db
    /\ size = Len(stream) * BlockSize
    /\ error = ""
    /\ ScanIdle
    /\ SortIdle
    /\ ExportIdle
    /\ ReaderIdle
    /\ HeaderIdle
    /\ AdminIdle

\* Main.sort up to its first loop: the id list and the empty output list
SortStart ==
    /\ sort_pc \in {"idle", "done", "aborted"}
    /\ sort_runs < MaxSortRuns
    /\ old_chunk_ids' \in chunk_query_ids_of(db, row_order)
    /\ new_chunk_ids' = <<>>
    /\ sort_iter' = 0
    /\ sort_pc' = "sorting"
    /\ error' = ""
    /\ UNCHANGED <<db, durable, row_order, sort_runs>>
    /\ UNCHANGED notSort

\* one iteration of the first loop of Main.sort: the list iterator yields the
\* entry at its index, the entry becomes a head, find_next_part chains on it
SortHead ==
    /\ sort_pc = "sorting"
    /\ sort_iter < Len(old_chunk_ids)
    /\ LET chunk_id == old_chunk_ids[sort_iter + 1]
           r == find_next_part(db, old_chunk_ids,
                               Append(new_chunk_ids, <<chunk_id, FALSE>>), chunk_id)
       IN  IF r.raised
           THEN /\ sort_pc' = "aborted"
                /\ error' = "AttributeError"
                /\ db' = durable
                /\ UNCHANGED <<old_chunk_ids, new_chunk_ids, sort_iter>>
           ELSE /\ old_chunk_ids' = r.old
                /\ new_chunk_ids' = r.new
                /\ sort_iter' = sort_iter + 1
                /\ UNCHANGED <<sort_pc, error, db>>
    /\ UNCHANGED <<durable, row_order, sort_runs>>
    /\ UNCHANGED notSort

\* the end of Main.sort: the second loop, then the commit of
\* db_manager.close() in Main.run
SortFinish ==
    /\ sort_pc = "sorting"
    /\ sort_iter >= Len(old_chunk_ids)
    /\ db' = update_positions(db, new_chunk_ids, 0)
    /\ durable' = db'
    /\ sort_pc' = "done"
    /\ sort_runs' = sort_runs + 1
    /\ UNCHANGED <<error, old_chunk_ids, new_chunk_ids, sort_iter, row_order>>
    /\ UNCHANGED notSort

NextSort ==
    \/ SortStart
    \/ SortHead
    \/ SortFinish

SpecSort == InitSort /\ [][NextSort]_vars

\* -------------------------------------------------------------- Main.export
\* Main.export, self.chunks: the chunk rows in position order, as Main.show
\* lists them (rows without a position first, rows of equal position in
\* row_order)
export_chunks(d, order) ==
    LET n == Len(d.chunk)
        rank(k) == CHOOSE a \in 1..Len(order) : order[a] = d.chunk[k].id
        before(j, k) ==
            \/ d.chunk[j].position < d.chunk[k].position
            \/ /\ d.chunk[j].position = d.chunk[k].position
               /\ rank(j) < rank(k)
        place(k) == Cardinality({j \in 1..n : before(j, k)}) + 1
    IN  [a \in 1..n |-> d.chunk[CHOOSE k \in 1..n : place(k) = a]]

\* "if chunk.concat": None and 0 are false
truthy(x) == x # None /\ x # 0

\* copy_chunk: the seek raises FileReaderError
copy_seek_raises(chunk) == seek_raises(chunk.block_start * BlockSize)

\* mutant of copy_count: the loop runs once more than block_size
copy_count_one_more(chunk) ==
    IF chunk.block_start + chunk.block_size + 1 <= input_blocks
    THEN chunk.block_size + 1
    ELSE IF input_blocks > chunk.block_start
         THEN input_blocks - chunk.block_start ELSE 0

\* copy_chunk: the number of blocks read in full before the loop ends or a
\* short read raises UnexpectedResultError
copy_count(chunk) ==
    IF chunk.block_start + chunk.block_size <= input_blocks
    THEN IF chunk.block_size > 0 THEN chunk.block_size ELSE 0
    ELSE IF input_blocks > chunk.block_start
         THEN input_blocks - chunk.block_start ELSE 0

\* copy_chunk: the blocks written to outf, each named by its block number
copy_chunk(chunk) ==
    IF copy_seek_raises(chunk) THEN <<>>
    ELSE [i \in 1..copy_count(chunk) |-> chunk.block_start + i - 1]

\* copy_chunk: the exception it ends with ("" when none)
copy_error(chunk) ==
    IF copy_seek_raises(chunk) THEN "FileReaderError"
    ELSE IF copy_count(chunk) < chunk.block_size THEN "UnexpectedResultError"
    ELSE ""

\* extract_chunk, the loop over the chunks behind the head: the data appended
\* to the open file and the exception that ended the loop
RECURSIVE extract_rest(_, _, _)
extract_rest(chunks, i, data) ==
    IF i > Len(chunks) \/ ~truthy(chunks[i].concat)
    THEN [data |-> data, error |-> ""]
    ELSE IF copy_error(chunks[i]) # ""
    THEN [data |-> data \o copy_chunk(chunks[i]), error |-> copy_error(chunks[i])]
    ELSE extract_rest(chunks, i + 1, data \o copy_chunk(chunks[i]))

\* mutant of file_number: the files are numbered by a counter of files
\* written, which a single export starts at 0
file_number_first(chunk_index) == 0

\* extract_chunk: the number in the name 'chunk_%04i.mpg' of the output file
file_number(chunk_index) == chunk_index

\* mutant of extract_chunk: a chunk marked concat is exported like a head
extract_chunk_any(chunks, chunk_index) ==
    LET head == chunks[chunk_index + 1]
        rest == IF copy_error(head) # ""
                THEN [data |-> copy_chunk(head), error |-> copy_error(head)]
                ELSE extract_rest(chunks, chunk_index + 2, copy_chunk(head))
    IN  [files |-> <<[index |-> file_number(chunk_index), data |-> rest.data]>>,
         error |-> rest.error]

\* Main.export.extract_chunk: the file it opens (named by chunk_index) with
\* the data written to it, and the exception it ends with
extract_chunk(chunks, chunk_index) ==
    LET head == chunks[chunk_index + 1]
        rest == IF copy_error(head) # ""
                THEN [data |-> copy_chunk(head), error |-> copy_error(head)]
                ELSE extract_rest(chunks, chunk_index + 2, copy_chunk(head))
    IN  IF truthy(head.concat)
        THEN [files |-> <<>>, error |-> "ExportError"]
        ELSE [files |-> <<[index |-> file_number(chunk_index),
                           data |-> rest.data]>>,
              error |-> rest.error]

\* Main.export without a chunk argument: the loop over all chunk indices
RECURSIVE export_all(_, _, _)
export_all(chunks, i, files) ==
    IF i >= Len(chunks) THEN [files |-> files, error |-> ""]
    ELSE IF truthy(chunks[i + 1].concat) THEN export_all(chunks, i + 1, files)
    ELSE LET r == extract_chunk(chunks, i)
         IN  IF r.error # ""
             THEN [files |-> files \o r.files, error |-> r.error]
             ELSE export_all(chunks, i + 1, files \o r.files)

\* Main.export, len(sys.argv) < 3: every head is extracted
ExportAll ==
    /\ sort_pc # "sorting"
    /\ LET r == export_all(export_chunks(db, row_order), 0, <<>>)
       IN  /\ outfiles' = r.files
           /\ error' = r.error
           /\ export_pc' = IF r.error = "" THEN "done" ELSE "aborted"
    /\ export_arg' = None
    /\ UNCHANGED notExport

\* Main.export with a chunk argument i = int(sys.argv[2])
ExportOne ==
    /\ sort_pc # "sorting"
    /\ \E i \in 0..MaxChunks :
        /\ export_arg' = i
        /\ IF i >= 0 /\ i < Len(db.chunk)
           THEN LET r == extract_chunk(export_chunks(db, row_order), i)
                IN  /\ outfiles' = r.files
                    /\ error' = r.error
                    /\ export_pc' = IF r.error = "" THEN "done" ELSE "aborted"
           ELSE /\ outfiles' = <<>>
                /\ error' = "ExportError"
                /\ export_pc' = "aborted"
    /\ UNCHANGED notExport

\* a chunk table as a finished scan leaves it, rows of equal clock_start
\* in the order of their ids
InitExport ==
    /\ \E n \in 0..MaxChunks : \E pairs \in [1..n -> ClockPairs] :
          /\ db = [chunk |-> StoredChunks(pairs), state |-> <<>>]
          /\ stream = StoredStream(pairs)
          /\ row_order = [k \in 1..n |-> k]
    /\ durable = db
    /\ size = Len(stream) * BlockSize
    /\ error = ""
    /\ ScanIdle
    /\ SortIdle
    /\ ExportIdle
    /\ ReaderIdle
    /\ HeaderIdle
    /\ AdminIdle

NextExport ==
    \/ SortStart
    \/ SortHead
    \/ SortFinish
    \/ ExportAll
    \/ ExportOne

SpecExport == InitExport /\ [][NextExport]_vars

\* -------------------------------------------------------------- FileReader
\* FileReader.get_size: the sizes of the parts ps added up
RECURSIVE get_size(_)
get_size(ps) == IF ps = <<>> THEN 0 ELSE Head(ps) + get_size(Tail(ps))

\* FileReader.get_offset: the sizes of the parts before index (0-based);
\* 0 for index None, which Python 2 orders below every integer
get_offset(ps, index) ==
    IF index <= 0 THEN 0 ELSE get_size(SubSeq(ps, 1, index))

\* FileReader.get_index: the 0-based index of the part that holds offset,
\* None when no part does
get_index(ps, offset) ==
    LET holds(k) == /\ offset >= get_offset(ps, k)
                    /\ offset < get_offset(ps, k) + ps[k + 1]
    IN  IF \E k \in 0..(Len(ps) - 1) : holds(k)
        THEN CHOOSE k \in 0..(Len(ps) - 1) : holds(k)
        ELSE None

\* FileReader.open: the index check that raises FileReaderError
open_raises(ps, index) == ~(index >= 0 /\ index < Len(ps))

\* FileReader.seek: the call of open()
seek_opens(cur, index) == cur = None \/ cur # index

\* mutant of next_file: the reader closes at the end of every file
next_file_close(ps, cur) == None

\* FileReader.next_file: the next part, or None (close) behind the last
next_file(ps, cur) == IF cur + 1 < Len(ps) THEN cur + 1 ELSE None

\* the byte at local offset j of part k (0-based), named by its place
Byte(k, j) == <<k, j>>

\* FileReader.read on regular files, where file.read is short only at the
\* end of the file: the buffer returned and the reader's fields afterwards
RECURSIVE read(_, _, _, _)
read(ps, cur, tell, n) ==
    IF cur = None THEN [buf |-> <<>>, current_file |-> None, file_tell |-> 0]
    ELSE LET avail == ps[cur + 1] - tell
             take == IF n < avail THEN n ELSE avail
             got == [i \in 1..take |-> Byte(cur, tell + i - 1)]
             delta == n - take
         IN  IF delta # 0
             THEN LET rest == read(ps, next_file(ps, cur), 0, delta)
                  IN  [rest EXCEPT !.buf = got \o rest.buf]
             ELSE [buf |-> got, current_file |-> cur, file_tell |-> tell + take]

\* the sizes of the input files: any list, empty files included
PartLists ==
    UNION {[1..n -> 0..MaxPartSize] : n \in 0..MaxParts}

\* FileReader.__init__ on the input files: no file open
InitReader ==
    /\ parts \in PartLists
    /\ current_file = None
    /\ file_tell = 0
    /\ buf = <<>>
    /\ last_op = [op |-> "none", arg |-> 0]
    /\ size = get_size(parts)
    /\ stream = <<>>
    /\ db = EmptyStore
    /\ durable = db
    /\ error = ""
    /\ row_order = <<>>
    /\ ScanIdle
    /\ SortIdle
    /\ ExportIdle
    /\ HeaderIdle
    /\ AdminIdle

\* FileReader.seek(offset)
Seek ==
    \E offset \in 0..(size + 1) :
        LET index == get_index(parts, offset)
            delta == offset - get_offset(parts, index)
        IN  /\ last_op' = [op |-> "seek", arg |-> offset]
            /\ IF seek_opens(current_file, index) /\ open_raises(parts, index)
               THEN /\ current_file' = None
                    /\ file_tell' = 0
                    /\ error' = "FileReaderError"
               ELSE /\ current_file' = index
                    /\ file_tell' = delta
                    /\ error' = ""
            /\ UNCHANGED <<parts, buf, notReader>>

\* FileReader.read(n)
Read ==
    \E n \in 0..MaxRead :
        LET r == read(parts, current_file, file_tell, n)
        IN  /\ last_op' = [op |-> "read", arg |-> n]
            /\ buf' = r.buf
            /\ current_file' = r.current_file
            /\ file_tell' = r.file_tell
            /\ error' = ""
            /\ UNCHANGED <<parts, notReader>>

\* the block read of ChunkFactory.run and of copy_chunk: read(blocksize),
\* then UnexpectedResultError when the buffer is not one block long
ReadBlock ==
    LET r == read(parts, current_file, file_tell, BlockSize)
    IN  /\ last_op' = [op |-> "read_block", arg |-> BlockSize]
        /\ buf' = r.buf
        /\ current_file' = r.current_file
        /\ file_tell' = r.file_tell
        /\ error' = IF Len(r.buf) # BlockSize THEN "UnexpectedResultError" ELSE ""
        /\ UNCHANGED <<parts, notReader>>

NextReader ==
    \/ Seek
    \/ Read
    \/ ReadBlock

SpecReader == InitReader /\ [][NextReader]_vars

\* ------------------------------------------------ ChunkFactory.mpeg_header
\* mpeg_header: the number of bits of the system clock (clock_bits)
ClockBits == 33

\* a clock is held as two limbs, value = hi * 2^LimbBits + lo, since it
\* does not fit the model checker's integers
LimbBits == 16

\* (b & (1 << k)) >> k
bit(b, k) == (b \div 2^k) % 2

\* mpeg_header: the byte of buf and the bit in it that clock_bits[i] is read
\* from
bit_place(i) ==
    IF i >= 30 THEN <<4, i - 27>>
    ELSE IF i >= 28 THEN <<4, i - 28>>
    ELSE IF i >= 20 THEN <<5, i - 20>>
    ELSE IF i >= 15 THEN <<6, i - 12>>
    ELSE IF i >= 13 THEN <<6, i - 13>>
    ELSE IF i >= 5 THEN <<7, i - 5>>
    ELSE <<8, i + 3>>

\* mutant of clock_bits: bit 29 is read from the marker bit next to it
clock_bits_marker(b) ==
    [i \in 0..(ClockBits - 1) |->
        IF i = 29 THEN bit(b[5], 2)
        ELSE bit(b[bit_place(i)[1] + 1], bit_place(i)[2])]

\* mpeg_header: clock_bits, read from buf (b[k + 1] is ord(buf[k]))
clock_bits(b) ==
    [i \in 0..(ClockBits - 1) |-> bit(b[bit_place(i)[1] + 1], bit_place(i)[2])]

\* the sum of f[i] * 2^(i - from) over i in from..to
RECURSIVE weigh(_, _, _, _)
weigh(f, from, i, to) ==
    IF i > to THEN 0 ELSE f[i] * 2^(i - from) + weigh(f, from, i + 1, to)

\* mpeg_header: clock = sum of clock_bits[i] * 2**i, as limbs
clock_of(f) ==
    [hi |-> weigh(f, LimbBits, LimbBits, ClockBits - 1),
     lo |-> weigh(f, 0, 0, LimbBits - 1)]

\* mpeg_header: the sync bytes 0x000001BA are missing
no_sync(b) == b[1] # 0 \/ b[2] # 0 \/ b[3] # 1 \/ b[4] # 186

\* mpeg_header: one of the four marker fields is not 1
no_marker(b) ==
    \/ b[5] \div 64 # 1
    \/ bit(b[5], 2) # 1
    \/ bit(b[7], 2) # 1
    \/ bit(b[9], 2) # 1

\* ChunkFactory.mpeg_header: <<>> for None, else the clock in a sequence
mpeg_header(b) ==
    IF no_sync(b) \/ no_marker(b) THEN <<>>
    ELSE <<clock_of(clock_bits(b))>>

\* bit i of the clock v
clock_bit(v, i) ==
    IF i < LimbBits THEN bit(v.lo, i) ELSE bit(v.hi, i - LimbBits)

\* the pack header of clock v, built after the layout table of mpeg_header's
\* comment; ext are the two bits behind the last marker bit
PackHeader(v, ext) ==
    LET c(i) == clock_bit(v, i)
    IN  <<0, 0, 1, 186,
          64 + 32 * c(32) + 16 * c(31) + 8 * c(30) + 4 + 2 * c(29) + c(28),
          128 * c(27) + 64 * c(26) + 32 * c(25) + 16 * c(24)
              + 8 * c(23) + 4 * c(22) + 2 * c(21) + c(20),
          128 * c(19) + 64 * c(18) + 32 * c(17) + 16 * c(16)
              + 8 * c(15) + 4 + 2 * c(14) + c(13),
          128 * c(12) + 64 * c(11) + 32 * c(10) + 16 * c(9)
              + 8 * c(8) + 4 * c(7) + 2 * c(6) + c(5),
          128 * c(4) + 64 * c(3) + 32 * c(2) + 16 * c(1) + 8 * c(0) + 4 + ext>>

\* the sets of at most k bit positions
RECURSIVE FlipSets(_)
FlipSets(k) ==
    IF k = 0 THEN {{}}
    ELSE FlipSets(k - 1) \cup
         {T \cup {i} : T \in FlipSets(k - 1), i \in 0..(ClockBits - 1)}

\* the clocks explored: all bits equal but for at most MaxFlipped of them
ClockValues ==
    {clock_of([i \in 0..(ClockBits - 1) |-> IF i \in S THEN 1 - base ELSE base]) :
        base \in {0, 1}, S \in FlipSets(MaxFlipped)}

\* byte values a damaged header is given
ByteSamples == {0, 1, 68, 186, 251, 255}

\* the buffer is the pack header of the clock it was built from
Undamaged ==
    /\ hdr_buf # <<>>
    /\ hdr_buf = PackHeader(hdr_v[1], hdr_buf[9] % 4)

\* a clock is chosen; no block was read
InitHeader ==
    /\ hdr_v \in {<<v>> : v \in ClockValues}
    /\ hdr_buf = <<>>
    /\ hdr_clock = <<>>
    /\ stream = <<>>
    /\ size = 0
    /\ db = EmptyStore
    /\ durable = db
    /\ error = ""
    /\ row_order = <<>>
    /\ ScanIdle
    /\ SortIdle
    /\ ExportIdle
    /\ ReaderIdle
    /\ AdminIdle

\* a block that starts with the pack header of the clock
MakeHeader ==
    /\ hdr_buf = <<>>
    /\ \E ext \in 0..3 : hdr_buf' = PackHeader(hdr_v[1], ext)
    /\ UNCHANGED <<hdr_v, hdr_clock, notHeader>>

\* a block whose leading bytes differ from the pack header in one byte
DamageHeader ==
    /\ Undamaged
    /\ hdr_clock = <<>>
    /\ \E k \in 1..9 : \E b \in ByteSamples :
          hdr_buf' = [hdr_buf EXCEPT ![k] = b]
    /\ UNCHANGED <<hdr_v, hdr_clock, notHeader>>

\* ChunkFactory.run: clock = self.mpeg_header(buf)
ParseHeader ==
    /\ hdr_buf # <<>>
    /\ hdr_clock' = <<mpeg_header(hdr_buf)>>
    /\ UNCHANGED <<hdr_v, hdr_buf, notHeader>>

NextHeader ==
    \/ MakeHeader
    \/ DamageHeader
    \/ ParseHeader

SpecHeader == InitHeader /\ [][NextHeader]_vars

\* ------------------------------------------------- Main.clear, Main.reset
\* mutant of chunk_reset: both tables are emptied
chunk_reset_all(d) == EmptyStore

\* SqlManager.chunk_reset: DELETE FROM chunk
chunk_reset(d) == [d EXCEPT !.chunk = <<>>]

\* the number of rows that start before row k
rank_by_block_start(d, k) ==
    Cardinality({j \in 1..Len(d.chunk) :
                    d.chunk[j].block_start < d.chunk[k].block_start})

\* Main.reset, reset_chunk_status: 'Sort chunks by block_start and clear
\* concat attribute'
reset_chunk_status(d) ==
    [d EXCEPT !.chunk =
        [k \in 1..Len(d.chunk) |->
            [d.chunk[k] EXCEPT !.position = rank_by_block_start(d, k),
                               !.concat = None]]]

\* the checkpoints an interrupted scan leaves behind the stored chunks: the
\* rows of state_init, or a saved state with no chunk open
StoredStates(n) ==
    {<<>>, state_init(EmptyStore).state} \cup
    {<<[current_block |-> n * (MinChunkSize + 2), block_start |-> None,
        clock_start |-> None, old_clock |-> c]>> : c \in Clocks}

\* a database with chunks, with or without a checkpoint
InitAdmin ==
    /\ \E n \in 1..MaxChunks : \E pairs \in [1..n -> ClockPairs] :
          /\ stream = StoredStream(pairs)
          /\ row_order = [k \in 1..n |-> k]
          /\ \E st \in StoredStates(n) :
                db = [chunk |-> StoredChunks(pairs), state |-> st]
    /\ durable = db
    /\ size = Len(stream) * BlockSize
    /\ error = ""
    /\ ScanIdle
    /\ SortIdle
    /\ ExportIdle
    /\ ReaderIdle
    /\ HeaderIdle
    /\ AdminIdle

\* Main.clear, then the commit of db_manager.close() in Main.run
Clear ==
    /\ sort_pc # "sorting"
    /\ db' = chunk_reset(db)
    /\ durable' = db'
    /\ admin_cmd' = "clear"
    /\ error' = ""
    /\ UNCHANGED notAdmin

\* Main.reset, then the commit of db_manager.close() in Main.run
Reset ==
    /\ sort_pc # "sorting"
    /\ db' = reset_chunk_status(db)
    /\ durable' = db'
    /\ admin_cmd' = "reset"
    /\ error' = ""
    /\ UNCHANGED notAdmin

NextAdmin ==
    \/ SortStart
    \/ SortHead
    \/ SortFinish
    \/ Clear
    \/ Reset

SpecAdmin == InitAdmin /\ [][NextAdmin]_vars

\* ------------------------------------------- scans with clear in between
\* Main.clear run as a command of its own, while no scan process is running
ClearBetweenScans ==
    /\ pc # "scanning"
    /\ Clear

NextRescan ==
    \/ StartScan
    \/ ScanBlock
    \/ EndScan
    \/ Interrupt
    \/ ClearBetweenScans

SpecRescan == Init /\ [][NextRescan]_vars

\* ------------------------------------------------- the stream, as runs
\* block i carries a valid header
Valid(i) == stream[i + 1] # None

\* block i carries a valid header that continues the clock of block i-1
Continuous(i) ==
    /\ i > 0
    /\ Valid(i - 1)
    /\ Valid(i)
    /\ stream[i + 1] - stream[i] >= 0
    /\ stream[i + 1] - stream[i] <= MaxCreateGap

\* block i is the first block of a run
RunStart(i) == Valid(i) /\ ~Continuous(i)

\* the number of blocks of the run that starts at block i
RunLen(i) ==
    Cardinality({j \in i..(Len(stream) - 1) : \A k \in (i + 1)..j : Continuous(k)})

\* the (block_start, block_size, clock_start, clock_end) of the rows of a store
ChunkSet(d) ==
    {[block_start |-> d.chunk[k].block_start, block_size |-> d.chunk[k].block_size,
      clock_start |-> d.chunk[k].clock_start, clock_end |-> d.chunk[k].clock_end]
        : k \in 1..Len(d.chunk)}

\* ChunkFactory.run from block i to the end on a never interrupted process:
\* the loop body for every block, then the last split
RECURSIVE UninterruptedRun(_, _, _)
UninterruptedRun(f, d, i) ==
    IF i >= input_blocks THEN split_db(f, d)
    ELSE LET f1 == [f EXCEPT !.current_block = i]
         IN  UninterruptedRun(body_cf(f1), body_db(f1, d), i + 1)

\* the store one never interrupted scan of the stream leaves
UninterruptedStore ==
    UninterruptedRun([load_state(NewChunkFactory, EmptyStore)
                         EXCEPT !.current_block = 0], EmptyStore, 0)

\* ------------------------------------------------------------------ C1
\* C1 (as claimed): a scan that was interrupted after a checkpoint commit and
\* resumed ends with exactly the chunk set of one never interrupted scan of
\* the same stream.
C1_ResumeSameChunks ==
    (pc = "finished" /\ resumed) =>
        ChunkSet(durable) = ChunkSet(UninterruptedStore)

\* ------------------------------------------------------------------ C2
\* C2: a scan started when the store has no checkpoint and the chunk table is
\* not empty ends at once in CreateError, without entering the block loop,
\* and leaves the chunk table and the checkpoint record as they were.
C2_RefuseWithoutCheckpoint ==
    [][(/\ pc \in {"idle", "finished", "aborted"}
        /\ state_query(db, "current_block") = None
        /\ Len(db.chunk) # 0)
       => (/\ pc' = "aborted"
           /\ error' = "CreateError"
           /\ xrange_pos' = xrange_pos
           /\ db' = db
           /\ durable' = durable)]_vars

\* C2 witness: a scan was refused while chunks are stored
C2_Witness ==
    /\ pc = "aborted"
    /\ error = "CreateError"
    /\ Len(durable.chunk) > 0
    /\ durable.state = <<>>

\* ------------------------------------------------------------------ C3
\* the durable checkpoint and the durable chunk table agree: every chunk ends
\* at or before current_block, and before the open chunk when one is recorded
CheckpointConsistent ==
    state_query(durable, "current_block") # None =>
        \A k \in 1..Len(durable.chunk) :
            LET r == durable.chunk[k]
            IN  /\ r.block_start >= 0
                /\ r.block_start + r.block_size <= state_query(durable, "current_block")
                /\ state_query(durable, "block_start") # None =>
                      r.block_start + r.block_size <= state_query(durable, "block_start")

\* after an interruption or a fatal error the store is the last commit
RolledBack == pc \in {"idle", "aborted"} => db = durable

\* a commit makes durable every chunk the transaction held before it, and it
\* advances the checkpoint or finishes the scan; no step removes a durable chunk
CommitTogether ==
    /\ durable' # durable =>
          /\ \A k \in 1..Len(db.chunk) :
                k <= Len(durable'.chunk) /\ durable'.chunk[k] = db.chunk[k]
          /\ durable'.state # durable.state \/ pc' = "finished"
    /\ Len(durable'.chunk) >= Len(durable.chunk)

\* C3: after an interruption or fatal error the durable store is the state of
\* the most recent commit; its chunks all lie before the durable checkpoint's
\* current_block and before the recorded open chunk; and every chunk closed
\* before a checkpoint is committed with it.
C3_CommitConsistency ==
    /\ [](CheckpointConsistent /\ RolledBack)
    /\ [][CommitTogether]_vars

\* C3 witness: the scan was interrupted while a chunk and a later checkpoint
\* with an open chunk were durable
C3_Witness ==
    /\ pc = "idle"
    /\ Len(durable.chunk) > 0
    /\ state_query(durable, "block_start") # None

\* ------------------------------------------------------------------ C4
\* C4: every chunk row, committed or in the open transaction, has
\* block_size >= the minimum chunk size.
C4_MinChunkSize ==
    /\ \A k \in 1..Len(db.chunk) : db.chunk[k].block_size >= MinChunkSize
    /\ \A k \in 1..Len(durable.chunk) : durable.chunk[k].block_size >= MinChunkSize

\* C4 witness: a finished scan that stored a chunk and discarded a shorter run
C4_Witness ==
    /\ pc = "finished"
    /\ Len(durable.chunk) > 0
    /\ \E i \in 0..(Len(stream) - 1) :
          /\ RunStart(i)
          /\ RunLen(i) - 1 < MinChunkSize
          /\ \A k \in 1..Len(durable.chunk) : durable.chunk[k].block_start # i


\* ------------------------------------------------------------------ C5
\* every two adjacent valid blocks have continuous clocks: the stream is made
\* of continuous runs separated by invalid blocks
RunsSeparatedByInvalid ==
    \A i \in 1..(Len(stream) - 1) : (Valid(i - 1) /\ Valid(i)) => Continuous(i)

\* C5 (as claimed): on a stream of continuous runs separated by invalid
\* blocks, a completed scan stores exactly one chunk for every run of at
\* least the minimum chunk size and none for a shorter run.
C5_OneChunkPerRun ==
    (pc = "finished" /\ ~resumed /\ RunsSeparatedByInvalid) =>
        /\ \A i \in 0..(Len(stream) - 1) : RunStart(i) =>
              Cardinality({k \in 1..Len(durable.chunk) :
                              /\ durable.chunk[k].block_start >= i
                              /\ durable.chunk[k].block_start < i + RunLen(i)})
                 = IF RunLen(i) >= MinChunkSize THEN 1 ELSE 0
        /\ Len(durable.chunk) =
              Cardinality({i \in 0..(Len(stream) - 1) :
                              RunStart(i) /\ RunLen(i) >= MinChunkSize})

\* ------------------------------------------------------------------ C6
\* C6 (as claimed): every stored chunk has block_start = the index of the
\* first block of its run and block_size = the number of blocks of that run.
C6_StartAndSizeOfRun ==
    (pc = "finished" /\ ~resumed) =>
        \A k \in 1..Len(durable.chunk) :
            /\ durable.chunk[k].block_start \in 0..(Len(stream) - 1)
            /\ RunStart(durable.chunk[k].block_start)
            /\ durable.chunk[k].block_size = RunLen(durable.chunk[k].block_start)

\* ------------------------------------------------------------------ C7
\* C7 (as claimed): clock_start is the clock of block block_start and
\* clock_end the clock of block block_start + block_size - 1.
C7_ClocksOfFirstAndLastBlock ==
    (pc = "finished" /\ ~resumed) =>
        \A k \in 1..Len(durable.chunk) :
            LET r == durable.chunk[k]
            IN  /\ r.block_start \in 0..(Len(stream) - 1)
                /\ r.clock_start = stream[r.block_start + 1]
                /\ (r.block_start + r.block_size - 1) \in 0..(Len(stream) - 1)
                /\ r.clock_end = stream[r.block_start + r.block_size]

\* ------------------------------------------------------------------ C8
\* the loop body reads block xrange_pos while a chunk is open and finds a
\* valid clock that regresses or jumps past the maximum gap
Discontinuity ==
    /\ pc = "scanning"
    /\ xrange_pos < input_blocks
    /\ cf.chunk # <<>>
    /\ cf.old_clock # None
    /\ stream[xrange_pos + 1] # None
    /\ \/ stream[xrange_pos + 1] - cf.old_clock < 0
       \/ stream[xrange_pos + 1] - cf.old_clock > MaxCreateGap

\* C8 (as claimed): the step that reads a discontinuous clock closes the open
\* chunk and opens a new one at that block, with that clock as clock_start.
C8_SplitOpensNewChunk ==
    [][(Discontinuity /\ pc' = "scanning" /\ xrange_pos' = xrange_pos + 1)
       => (/\ cf'.chunk # <<>>
           /\ cf'.chunk[1].block_start = xrange_pos
           /\ cf'.chunk[1].clock_start = stream[xrange_pos + 1])]_vars

\* ------------------------------------------------------------------ C9
\* the state Finished: no checkpoint row, no open chunk, nothing uncommitted
FinishedState ==
    pc = "finished" =>
        /\ durable.state = <<>>
        /\ state_query(durable, "current_block") = None
        /\ cf.chunk = <<>>
        /\ db = durable

\* the step into Finished is taken at the end of the block range; it keeps
\* every chunk of the transaction and stores the still open chunk under the
\* close rule of an invalid block (block_size = current_block - 1 -
\* block_start, clock_end = old_clock, stored when block_size >= minimum)
FinishStep ==
    (pc = "scanning" /\ pc' = "finished") =>
        /\ xrange_pos >= input_blocks
        /\ \A k \in 1..Len(db.chunk) :
              k <= Len(durable'.chunk) /\ durable'.chunk[k] = db.chunk[k]
        /\ IF /\ cf.chunk # <<>>
              /\ cf.current_block - 1 - cf.chunk[1].block_start >= MinChunkSize
           THEN /\ Len(durable'.chunk) = Len(db.chunk) + 1
                /\ LET r == durable'.chunk[Len(durable'.chunk)]
                   IN  /\ r.block_start = cf.chunk[1].block_start
                       /\ r.block_size = cf.current_block - 1 - cf.chunk[1].block_start
                       /\ r.clock_start = cf.chunk[1].clock_start
                       /\ r.clock_end = cf.old_clock
           ELSE Len(durable'.chunk) = Len(db.chunk)

C10_PositionsArePermutation ==
    sort_pc = "done" =>
        /\ \A k \in 1..Len(durable.chunk) :
              /\ durable.chunk[k].position # None
              /\ durable.chunk[k].concat \in {0, 1}
              /\ Cardinality({i \in 1..Len(new_chunk_ids) :
                                 new_chunk_ids[i][1] = durable.chunk[k].id}) = 1
        /\ {durable.chunk[k].position : k \in 1..Len(durable.chunk)}
              = 0..(Len(durable.chunk) - 1)


\* ----------------------------------------------------------------- C11
\* chunk b is reachable from chunk a: 0 <= b.clock_start - a.clock_end <= gap
Reachable(a, b) ==
    /\ b.clock_start - a.clock_end >= 0
    /\ b.clock_start - a.clock_end <= MaxSortGap

\* C11 (as claimed): after sort, every chunk with concat = true stands at a
\* position p >= 1 and is reachable from the chunk at position p - 1; and in
\* a table of two chunks a, b with a.clock_start < b.clock_start and b
\* reachable from a, b stands right after a with concat = true.
C11_ConcatFollowsReachableTail ==
    sort_pc = "done" =>
        /\ \A k \in 1..Len(durable.chunk) :
              durable.chunk[k].concat = 1 =>
                  /\ durable.chunk[k].position >= 1
                  /\ \E j \in 1..Len(durable.chunk) :
                        /\ durable.chunk[j].position = durable.chunk[k].position - 1
                        /\ Reachable(durable.chunk[j], durable.chunk[k])
        /\ Len(durable.chunk) = 2 =>
              \A j, k \in 1..2 :
                  (/\ durable.chunk[j].clock_start < durable.chunk[k].clock_start
                   /\ Reachable(durable.chunk[j], durable.chunk[k]))
                  => /\ durable.chunk[k].position = durable.chunk[j].position + 1
                     /\ durable.chunk[k].concat = 1

\* ----------------------------------------------------------------- C12
\* C12 (as claimed): every entry the linker appends as a continuation is a
\* chunk not yet in the ordered output, reachable from the entry before it,
\* and no unclaimed reachable chunk has a smaller delta.
C12_NearestUnclaimed ==
    \A k \in 2..Len(new_chunk_ids) :
        new_chunk_ids[k][2] =>
            LET tail == chunk_load(db, new_chunk_ids[k - 1][1])
                next == chunk_load(db, new_chunk_ids[k][1])
                claimed == {new_chunk_ids[j][1] : j \in 1..(k - 1)}
            IN  /\ next.id \notin claimed
                /\ Reachable(tail, next)
                /\ \A u \in 1..Len(db.chunk) :
                      (db.chunk[u].id \notin claimed /\ Reachable(tail, db.chunk[u]))
                      => next.clock_start - tail.clock_end
                           <= db.chunk[u].clock_start - tail.clock_end

\* ----------------------------------------------------------------- C13
\* C13: a run of sort that completes after an earlier completed run on the
\* same chunk set leaves position and concat of every chunk as the earlier
\* run set them; a run that aborts writes nothing.
C13_SortIdempotent ==
    [][/\ (sort_pc = "sorting" /\ sort_pc' = "done" /\ sort_runs >= 1)
          => durable'.chunk = durable.chunk
       /\ (sort_pc = "sorting" /\ sort_pc' = "aborted")
          => durable'.chunk = durable.chunk]_vars

\* C13 witness: the second run completed on a table with a chain
C13_Witness ==
    /\ sort_pc = "done"
    /\ sort_runs = 2
    /\ \E k \in 1..Len(durable.chunk) : durable.chunk[k].concat = 1
    /\ \E k \in 1..Len(durable.chunk) : durable.chunk[k].concat = 0


\* ----------------------------------------------------------- export claims
\* the chunk list an export command has just worked on
Exported == export_chunks(db, row_order)

\* the block numbers of a chunk, in order
BlocksOf(chunk) == [i \in 1..chunk.block_size |-> chunk.block_start + i - 1]

\* the last index of the chain that starts at index h (both 1-based): the
\* chunks behind h that are marked concat, up to the next head or the end
ChainEnd(chunks, h) ==
    CHOOSE e \in h..Len(chunks) :
        /\ \A j \in (h + 1)..e : truthy(chunks[j].concat)
        /\ e = Len(chunks) \/ ~truthy(chunks[e + 1].concat)

\* the data of the chunks h..e, one after the other
RECURSIVE ChainData(_, _, _)
ChainData(chunks, h, e) ==
    IF h > e THEN <<>>
    ELSE BlocksOf(chunks[h]) \o ChainData(chunks, h + 1, e)

\* the 1-based indices of the heads, ascending
Heads(chunks) == {h \in 1..Len(chunks) : ~truthy(chunks[h].concat)}

\* an export command has just run on the chunk table as it stands: the step
\* changes the export state and leaves the database alone
ExportStep == exportVars' # exportVars

\* 'export all' has just run to its end
ExportAllStep ==
    /\ ExportStep
    /\ export_pc' = "done"
    /\ export_arg' = None

\* how often block b occurs in the files
Occurrences(files, b) ==
    Cardinality({<<k, i>> \in (1..Len(files)) \X (1..MaxBlocks * MaxChunks) :
                    i <= Len(files[k].data) /\ files[k].data[i] = b})

\* C14: exporting all on a linked chunk set writes one file per head, each
\* holding the head's data followed by the data of its continuations in
\* position order, so that the data of every chunk is written exactly once
\* and a file is as long as its chunks' block sizes add up to
C14_ExportAllWritesEveryChunkOnce ==
    [][(ExportAllStep /\ sort_pc = "done") =>
        /\ Len(outfiles') = Cardinality(Heads(Exported))
        /\ \A k \in 1..Len(outfiles') :
            \E h \in Heads(Exported) :
                outfiles'[k].data = ChainData(Exported, h, ChainEnd(Exported, h))
        /\ \A c \in 1..Len(Exported) :
            \A i \in 1..Exported[c].block_size :
                Occurrences(outfiles', Exported[c].block_start + i - 1) = 1]_vars

\* C15: exporting a single chunk marked concat fails with ExportError and
\* opens no file; exporting a single chunk not marked concat writes exactly
\* one file, holding that chunk's chain only
C15_SingleExportNeedsHead ==
    [][(ExportStep /\ export_arg' \in 0..(Len(db.chunk) - 1)) =>
        LET h == export_arg' + 1
        IN  IF truthy(Exported[h].concat)
            THEN /\ export_pc' = "aborted"
                 /\ error' = "ExportError"
                 /\ outfiles' = <<>>
            ELSE /\ export_pc' = "done"
                 /\ Len(outfiles') = 1
                 /\ outfiles'[1].data =
                        ChainData(Exported, h, ChainEnd(Exported, h))]_vars

\* a continuation of a linked chain was selected and refused
C15_Witness ==
    /\ export_pc = "aborted"
    /\ error = "ExportError"
    /\ outfiles = <<>>
    /\ sort_pc = "done"
    /\ export_arg \in 0..(Len(db.chunk) - 1)
    /\ truthy(Exported[export_arg + 1].concat)
    /\ \E h \in Heads(Exported) : h < export_arg + 1

\* C19 as stated: the files of one 'export all' carry consecutive numbers
\* that increase in the order the files are written
C19_NumbersConsecutive ==
    [][ExportAllStep =>
        \A k \in 1..(Len(outfiles') - 1) :
            outfiles'[k + 1].index = outfiles'[k].index + 1]_vars

\* the k-th head (1-based) of the chunk list
NthHead(chunks, k) ==
    CHOOSE h \in Heads(chunks) :
        Cardinality({g \in Heads(chunks) : g < h}) = k - 1

\* C19 amended: one 'export all' writes one file per head, the k-th file
\* carries the index in position order of the k-th head, so the numbers
\* increase in the order the files are written and skip the indices of the
\* continuation chunks
C19_NumbersAreHeadIndices ==
    [][ExportAllStep =>
        /\ Len(outfiles') = Cardinality(Heads(Exported))
        /\ \A k \in 1..Len(outfiles') :
            outfiles'[k].index = NthHead(Exported, k) - 1
        /\ \A k \in 1..(Len(outfiles') - 1) :
            outfiles'[k].index < outfiles'[k + 1].index]_vars

\* two files were written and the second skips the number of a continuation
C19_Witness ==
    /\ export_pc = "done"
    /\ export_arg = None
    /\ Len(outfiles) = 2
    /\ outfiles[1].index = 0
    /\ outfiles[2].index = 2


\* ------------------------------------------------------- FileReader claims
\* the logical concatenation of the files
RECURSIVE Logical(_, _)
Logical(ps, k) ==
    IF k >= Len(ps) THEN <<>>
    ELSE [j \in 1..ps[k + 1] |-> Byte(k, j - 1)] \o Logical(ps, k + 1)

\* the bytes o..o+n-1 of the logical concatenation
LogicalBytes(o, n) == SubSeq(Logical(parts, 0), o + 1, o + n)

\* the offset in the virtual stream at which the reader stands: behind the
\* last byte when no file is open
Pos ==
    IF current_file = None THEN size
    ELSE get_offset(parts, current_file) + file_tell

\* C16: for o + n <= total size, seek(o) followed by read(n) returns the
\* bytes o..o+n-1 of the logical concatenation, and a read that follows a
\* read continues where that one ended, also across file boundaries
C16_SeekReadExact ==
    [][/\ (/\ last_op.op = "seek"
           /\ last_op'.op = "read"
           /\ last_op.arg + last_op'.arg <= size)
          => /\ error = ""
             /\ buf' = LogicalBytes(last_op.arg, last_op'.arg)
       /\ (/\ last_op.op = "read"
           /\ last_op'.op = "read"
           /\ Pos + last_op'.arg <= size
           /\ readerVars' # readerVars)
          => /\ buf' = LogicalBytes(Pos, last_op'.arg)
             /\ Pos' = Pos + last_op'.arg]_vars

\* C17 as stated: read(n) returns n bytes or fails with an error
C17_ReadNeverShort ==
    [][(last_op'.op = "read" /\ readerVars' # readerVars) =>
        Len(buf') = last_op'.arg \/ error' # ""]_vars

\* what is left of the stream behind the reader's position
Remaining == size - Pos

\* C17 amended: read(n) raises nothing; it returns the next n bytes, or,
\* when fewer remain, the bytes that remain (possibly none) and closes the
\* last file; the size error is raised by the block read of its callers
\* exactly when the buffer is not one block long
C17_ShortReadOnlyAtEnd ==
    [][/\ (last_op'.op \in {"read", "read_block"} /\ readerVars' # readerVars)
          => LET n == last_op'.arg
                 m == IF n < Remaining THEN n ELSE Remaining
             IN  /\ buf' = LogicalBytes(Pos, m)
                 /\ Len(buf') < n => current_file' = None
                 /\ last_op'.op = "read" => error' = ""
                 /\ last_op'.op = "read_block" =>
                        (error' = "UnexpectedResultError" <=> Len(buf') # n)
                 /\ last_op'.op = "read_block" => error' \in {"", "UnexpectedResultError"}]_vars

\* a read crossed a file boundary, reached the end of the last file and
\* returned a short, non-empty buffer without an error
C17_Witness ==
    /\ last_op.op = "read"
    /\ Len(buf) > 0
    /\ Len(buf) < last_op.arg
    /\ \E i \in 1..(Len(buf) - 1) : buf[i][1] # buf[i + 1][1]
    /\ current_file = None
    /\ error = ""


\* ------------------------------------------------------ mpeg_header claims
\* the value of the limbs lies in [0, 2^33)
InRange(v) ==
    /\ v.hi >= 0 /\ v.hi < 2^(ClockBits - LimbBits)
    /\ v.lo >= 0 /\ v.lo < 2^LimbBits

\* C18: parsing the pack header that encodes the clock v returns exactly v,
\* and every clock the parser returns lies in [0, 2^33)
C18_HeaderRoundTrip ==
    hdr_clock # <<>> =>
        /\ Undamaged => hdr_clock[1] = <<hdr_v[1]>>
        /\ hdr_clock[1] # <<>> => InRange(hdr_clock[1][1])

\* a clock with bit 32 and bit 0 set and a bit in between clear came back
\* from its header
C18_Witness ==
    /\ Undamaged
    /\ hdr_clock = <<<<hdr_v[1]>>>>
    /\ clock_bit(hdr_v[1], 32) = 1
    /\ clock_bit(hdr_v[1], 0) = 1
    /\ \E i \in 1..31 : clock_bit(hdr_v[1], i) = 0


\* ------------------------------------------------- clear and reset claims
\* the command c has just run: the linker's program counters stand still
AdminStep(c) ==
    /\ admin_cmd' = c
    /\ UNCHANGED <<sort_pc, sort_iter, sort_runs>>
    /\ durable' # durable \/ admin_cmd' # admin_cmd

\* the fields of the rows that the scan wrote
ScanFields(d) ==
    [k \in 1..Len(d.chunk) |->
        <<d.chunk[k].id, d.chunk[k].block_start, d.chunk[k].block_size,
          d.chunk[k].clock_start, d.chunk[k].clock_end>>]

InsideOneRun(r) ==
    /\ r.block_start >= 0
    /\ \A i \in r.block_start..(r.block_start + r.block_size - 1) :
          /\ i < Len(stream)
          /\ Valid(i)
          /\ i > r.block_start => Continuous(i)

\* C21: for every persisted chunk, every block in [block_start, block_start +
\* block_size) has a valid header and every two adjacent blocks of that range
\* have clocks with 0 <= later - earlier <= max_create_gap.
C21_ChunkInsideOneRun ==
    /\ \A k \in 1..Len(db.chunk) : InsideOneRun(db.chunk[k])
    /\ \A k \in 1..Len(durable.chunk) : InsideOneRun(durable.chunk[k])

\* C21 witness: a chunk of two blocks or more is durable, and the stream
\* holds an invalid block and a clock discontinuity
C21_Witness ==
    /\ \E k \in 1..Len(durable.chunk) : durable.chunk[k].block_size >= 2
    /\ \E i \in 0..(Len(stream) - 1) : ~Valid(i)
    /\ \E i \in 1..(Len(stream) - 1) : Valid(i - 1) /\ Valid(i) /\ ~Continuous(i)


\* ----------------------------------------------------------------- C22
\* the row r lies within the full blocks of the stream, and copy_chunk on it
\* raises nothing and writes exactly the blocks of its range
Satisfiable(r) ==
    /\ r.block_start >= 0
    /\ r.block_start + r.block_size <= input_blocks
    /\ copy_error(r) = ""
    /\ copy_chunk(r) = [i \in 1..r.block_size |-> r.block_start + i - 1]

\* C22: for every chunk the scanner persists, block_start + block_size is at
\* most the number of full blocks of the stream, so copying it (seek to
\* block_start times the block size, then block_size block reads) hits no
\* short read and copies exactly the blocks block_start..block_start +
\* block_size - 1.
C22_ScannedChunkSatisfiable ==
    /\ \A k \in 1..Len(db.chunk) : Satisfiable(db.chunk[k])
    /\ \A k \in 1..Len(durable.chunk) : Satisfiable(durable.chunk[k])

\* C22 witness: a scan finished on a stream that ends in a partial block
\* behind a valid block, and the chunk closed by the end of the stream is
\* durable
C22_Witness ==
    /\ pc = "finished"
    /\ size > input_blocks * BlockSize
    /\ Len(stream) > 0
    /\ Valid(Len(stream) - 1)
    /\ \E k \in 1..Len(durable.chunk) :
          durable.chunk[k].block_start + durable.chunk[k].block_size
              >= Len(stream) - 2


\* ----------------------------------------------------------------- C23
\* entry i of the ordered output is the last of its chain
ChainTail(i) ==
    /\ i \in 1..Len(new_chunk_ids)
    /\ i = Len(new_chunk_ids) \/ ~new_chunk_ids[i + 1][2]

\* the tails of the ordered output reach no later head
TailsReachNoLaterHead ==
    sort_pc = "done" =>
        \A i, j \in 1..Len(new_chunk_ids) :
            (ChainTail(i) /\ i < j /\ ~new_chunk_ids[j][2]) =>
                ~Reachable(chunk_load(durable, new_chunk_ids[i][1]),
                           chunk_load(durable, new_chunk_ids[j][1]))

\* the same on the stored table: rows in position order, a row with concat
\* false being a head
StoredTailsReachNoLaterHead ==
    sort_pc = "done" =>
        \A t, h \in 1..Len(durable.chunk) :
            LET T == durable.chunk[t]
                H == durable.chunk[h]
            IN  (/\ T.position # None
                 /\ H.position # None
                 /\ T.position < H.position
                 /\ H.concat = 0
                 /\ \A k \in 1..Len(durable.chunk) :
                       durable.chunk[k].position = T.position + 1
                           => durable.chunk[k].concat = 0)
                => ~Reachable(T, H)

\* C23: after link, for the last chunk T of every chain and every head H
\* placed at a later position, H is not reachable from T: H.clock_start -
\* T.clock_end is < 0 or > max_sort_gap.
C23_ChainEndsWhenNothingExtends ==
    TailsReachNoLaterHead /\ StoredTailsReachNoLaterHead

\* C23 witness: the link ended with a chain of two chunks followed by a head
\* that starts before the clock_end of the chain's tail
C23_Witness ==
    /\ sort_pc = "done"
    /\ Len(new_chunk_ids) = 3
    /\ new_chunk_ids[2][2]
    /\ ~new_chunk_ids[3][2]
    /\ new_chunk_ids[3][1] # new_chunk_ids[1][1]
    /\ chunk_load(durable, new_chunk_ids[3][1]).clock_start
          < chunk_load(durable, new_chunk_ids[2][1]).clock_end


\* ----------------------------------------------------------------- C24
\* C24 (as claimed): after link, the heads appear in position order with
\* non-decreasing clock_start, the chunk at position 0 is a head with the
\* smallest clock_start of the set, and no chunk is skipped: every chunk is
\* in the ordered output and has a position.
C24_HeadsAscendNoneSkipped ==
    (sort_pc = "done" /\ Len(durable.chunk) > 0) =>
        /\ \A a, b \in 1..Len(durable.chunk) :
              (/\ durable.chunk[a].concat = 0
               /\ durable.chunk[b].concat = 0
               /\ durable.chunk[a].position < durable.chunk[b].position)
              => durable.chunk[a].clock_start <= durable.chunk[b].clock_start
        /\ \E a \in 1..Len(durable.chunk) :
              /\ durable.chunk[a].position = 0
              /\ durable.chunk[a].concat = 0
              /\ \A b \in 1..Len(durable.chunk) :
                    durable.chunk[a].clock_start <= durable.chunk[b].clock_start
        /\ \A a \in 1..Len(durable.chunk) :
              /\ durable.chunk[a].position # None
              /\ \E i \in 1..Len(new_chunk_ids) :
                    new_chunk_ids[i][1] = durable.chunk[a].id


\* ----------------------------------------------------------------- C25
\* the block a scan starts at: the checkpoint's current_block, or 0
StartPoint ==
    IF state_query(db, "current_block") = None THEN 0
    ELSE state_query(db, "current_block")

\* C25 (as claimed): a scan that is not interrupted and hits no stream error
\* ends in Finished, also on a stream of zero full blocks, after it has
\* examined every block from the start (or resume) point to the last full
\* block once, in ascending order.  No read of the model is short, so the one
\* way out of a scan that was admitted is Finished; CreateError is the
\* refusal of C2.
C25_ScanRunsToFinished ==
    [][/\ (pc # "scanning" /\ pc' = "scanning") => xrange_pos' = StartPoint
       /\ (pc = "scanning" /\ pc' = "scanning") =>
             \/ xrange_pos' = xrange_pos
             \/ xrange_pos < input_blocks /\ xrange_pos' = xrange_pos + 1
       /\ (pc = "scanning" /\ pc' = "finished") => xrange_pos = input_blocks
       /\ (pc # "aborted" /\ pc' = "aborted") => error' = "CreateError"
       /\ (pc = "aborted" /\ pc' = "aborted" /\ error' # error) =>
             error' = "CreateError"]_vars

\* ----------------------------------------------------------------- C26
\* the rows of the table d lie one behind the other
AscendingDisjoint(d) ==
    \A k, l \in 1..Len(d.chunk) :
        k < l =>
            /\ d.chunk[k].block_start < d.chunk[l].block_start
            /\ d.chunk[k].block_start + d.chunk[k].block_size
                  <= d.chunk[l].block_start

\* C26: in every state of the store during and after a scan, across
\* interruption and resume, the block ranges of the persisted chunks are
\* pairwise disjoint and the chunks are persisted in strictly ascending
\* block_start order.
C26_RangesAscendingDisjoint ==
    AscendingDisjoint(db) /\ AscendingDisjoint(durable)

\* C26 witness: a resumed scan added a chunk behind a chunk that was durable
\* before the resume
C26_Witness ==
    /\ resumed
    /\ Len(durable.chunk) >= 1
    /\ Len(db.chunk) >= 2
    /\ cf.current_block > db.chunk[Len(db.chunk)].block_start
    /\ state_query(durable, "current_block") # None
    /\ state_query(durable, "current_block") <= db.chunk[Len(db.chunk)].block_start


\* ----------------------------------------------------------------- C27
\* the row r carries two clocks, the first not behind the second
ClocksInOrder(r) ==
    /\ r.clock_start # None
    /\ r.clock_end # None
    /\ r.clock_start <= r.clock_end

C28_FinishedScanRefusesUntilCleared ==
    [][(finished_scan /\ StartScan) =>
          IF Len(durable.chunk) > 0
          THEN /\ pc' = "aborted"
               /\ error' = "CreateError"
               /\ db' = db
               /\ durable' = durable
               /\ finished_scan'
          ELSE /\ pc' = "scanning"
               /\ xrange_pos' = 0
               /\ cf'.current_block = 0
               /\ cf'.chunk = <<>>
               /\ ~resumed']_vars

\* C28 witness: the table was cleared, a scan then finished and stored a chunk,
\* and the next invocation was refused
C28_Witness ==
    /\ finished_scan
    /\ admin_cmd = "clear"
    /\ pc = "aborted"
    /\ error = "CreateError"
    /\ Len(durable.chunk) > 0

\* ------------------------------------------------------------------ C29
\* the current_block of the committed checkpoint, None when there is none
DurableCheckpoint == state_query(durable, "current_block")

\* C29: over the commits of a scan, interruptions and resumes included, the
\* committed checkpoint's current_block never decreases and is a block index
\* below input_blocks; a commit that changes the checkpoint is made by the
\* iteration that is about to examine that very block, and the loop, which
\* goes up by one block per iteration, is entered at block 0 or, on a resume,
\* at the committed checkpoint, so that every block before a checkpoint has
\* been examined.
C29_CheckpointAdvances ==
    [][/\ (DurableCheckpoint # None /\ DurableCheckpoint' # None) =>
              DurableCheckpoint' >= DurableCheckpoint
       /\ DurableCheckpoint' # None =>
              (0 <= DurableCheckpoint' /\ DurableCheckpoint' < input_blocks)
       /\ (DurableCheckpoint' # None /\ durable'.state # durable.state) =>
              /\ pc = "scanning"
              /\ DurableCheckpoint' = xrange_pos
              /\ xrange_pos' = xrange_pos + 1
       /\ (pc # "scanning" /\ pc' = "scanning") =>
              xrange_pos' = IF DurableCheckpoint = None THEN 0
                            ELSE DurableCheckpoint]_vars

\* C29 witness: a scan resumed from a checkpoint has committed a checkpoint of
\* its own, for the block it examined last
C29_Witness ==
    /\ resumed
    /\ pc = "scanning"
    /\ db.state = durable.state
    /\ DurableCheckpoint # None
    /\ DurableCheckpoint = xrange_pos - 1
    /\ DurableCheckpoint >= 2

=============================================================================
